---- MODULE Spec2Model ----
(***************************************************************************)
(* Model of the CCTP transfer orchestration of fluid-sdk.                  *)
(*                                                                         *)
(* src/src/permit2.ts holds two implementations of transferUsdcViaCctp:    *)
(*   ver = 1  lines 275-415: relayer-only transfer, attestation polling    *)
(*            loop with exponential backoff;                               *)
(*   ver = 2  lines 544-720: relayer or delegated (user wallet) transfer,  *)
(*            authorization check, one attestation fetch.                  *)
(* One behaviour of Spec is one call of transferUsdcViaCctp.  Every action *)
(* is the code that runs from the return of one awaited call to the next   *)
(* await (or to the return of the function).                               *)
(***************************************************************************)
EXTENDS Integers, Sequences, FiniteSets, TLC

VARIABLES
  ver,            \* which implementation of transferUsdcViaCctp runs
  request,        \* the CctpTransferRequest argument
  pc,             \* the awaited call the function is suspended on
  now,            \* Date.now(), milliseconds
  calls,          \* number of calls made so far to each external operation
  amountBigInt,   \* parsed amount, smallest units
  sourceAddress,  \* debited address
  srcTxids,       \* value initiateTransfer resolved to
  sourceTx,
  delay,          \* backoff interval, in 1/DelayScale milliseconds
  startTime,      \* Date.now() when polling started
  attestationIds, \* last value assigned from fetchAttestation
  fetched,        \* outcome of the last fetchAttestation call
  onlyNotYet,     \* history: every attestation query so far reported "not yet available"
  isValid,        \* what verifyUserAuthorization returned, "unset" before it ran
  thrown,         \* the value caught by the top-level catch
  result,         \* the promise returned to the caller
  txSigner,       \* address of the signer handed to initiateTransfer
  usedConfig,     \* the configuration the SDK and the signers were created from
  relayerPending, \* whether the relayer account had a pending transaction at the nonce query
  flows,          \* concurrent executions: the submission step of each
  pendingCount,   \* the chain's pending transaction count of each account
  cli,            \* the command-line runner
  op,             \* the library function called on its own, "none" during a transfer
  input,          \* its arguments
  output          \* what it returned and what it built on the way

transferVars ==
  <<ver, request, pc, now, calls, amountBigInt, sourceAddress, srcTxids, sourceTx, delay,
    startTime, attestationIds, fetched, onlyNotYet, isValid, thrown, result, txSigner,
    usedConfig, relayerPending>>

libraryVars == <<op, input, output>>

flowVars == <<flows, pendingCount>>

otherVars == <<libraryVars, flowVars, cli>>

vars == <<transferVars, otherVars>>

-----------------------------------------------------------------------------
(* Bounds of the model *)

StartClock == 1000000      \* Date.now() when the function is called
MaxLate == 1               \* a timer fires up to MaxLate lateness steps late
MaxCalls == 2              \* the number of calls to one operation is counted up to MaxCalls

(* Program constants *)

InitialDelay == 2000
MaxDelay == 30000
MaxTimeout == 180000
PerAttemptTimeout == 10000
SingleFetchTimeout == 180000
DelayScale == 4            \* delay is held in quarter milliseconds: 2000 * 1.5^k is a multiple of 1/4 until capped

Undefined == "undefined"

-----------------------------------------------------------------------------
(* Values thrown and error messages.  A message is a sequence of text      *)
(* fragments; includes(x) is modelled as x being one of the fragments.     *)

Includes(msg, frag) == \E i \in DOMAIN msg : msg[i] = frag

MkError(msg) == [type |-> "Error", text |-> msg]
MkString(s) == [type |-> "string", text |-> s]
Nullish == [type |-> "nullish", text |-> <<>>]
NoError == [type |-> "none", text |-> <<>>]

\* values an external call (SDK, provider, attestation service) can throw
ExternalThrows ==
  { MkError(<<"timeout">>), MkError(<<"not found">>), MkError(<<"HTTP 500">>),
    MkError(<<>>), MkString(<<"boom">>), Nullish }

\* reading error.message of a caught value: a TypeError for null/undefined
MessageThrows(e) == e.type = "nullish"
TypeErrorOnMessage == MkError(<<"Cannot read properties of undefined (reading 'message')">>)

\* error.message when it is a string; undefined for a thrown non-Error
HasMessage(e) == e.type = "Error"

\* String(error)
StringOf(e) ==
  IF e.type = "Error"
    THEN IF e.text = <<>> THEN <<"Error">> ELSE <<"Error: ">> \o e.text
    ELSE e.text

\* `${error.message}` inside a template literal
TemplateMessage(e) == IF HasMessage(e) THEN e.text ELSE <<Undefined>>

\* error.message?.includes(x)
MessageIncludes(e, frag) == HasMessage(e) /\ Includes(e.text, frag)

-----------------------------------------------------------------------------
(* Addresses, permits and signatures *)

PERMIT2_ADDRESS == "0x000000000022D473030F116dDEE9F6B43aC78BA3"
BASE_SEPOLIA_USDC == "0x036CbD53842c5426634e7929541eC2318f3dCF7e"
BASE_SEPOLIA_CHAIN_ID == 84532

UserAddress == "0xAbCd"          \* checksummed address of the user's key
UserAddressLower == "0xabcd"
OtherAddress == "0xEf01"
SponsorAddress == "0xSponsor"    \* baseSigner.address
AptosSponsorAddress == "0xAptosSponsor"   \* aptosSigner.address
DestAddress == "0xDest"
UnrelatedAddress == "0x9999"     \* what ECDSA recovery yields for a digest that was not signed

\* String.prototype.toLowerCase on the addresses of the model
toLowerCase(a) ==
  CASE a = UserAddress -> UserAddressLower
    [] a = OtherAddress -> "0xef01"
    [] a = SponsorAddress -> "0xsponsor"
    [] OTHER -> a

\* the clamping limits, scaled from 160 and 48 bits to 24 and 16 bits
maxUint160 == 2^24 - 1
maxUint48 == 2^16 - 1

NoPermit ==
  [present |-> FALSE, owner |-> "", spender |-> "", token |-> "",
   value |-> 0, nonce |-> 0, deadline |-> 0]

createPermitClamped(owner, spender, token, value, nonce, deadlineOffsetSeconds, clock) ==
  [present |-> TRUE, owner |-> owner, spender |-> spender, token |-> token,
   value |-> IF value > maxUint160 THEN maxUint160 ELSE value, nonce |-> nonce,
   deadline |-> (clock \div 1000) + deadlineOffsetSeconds]

createPermit(owner, spender, token, value, nonce, deadlineOffsetSeconds, clock) ==
  [present |-> TRUE, owner |-> owner, spender |-> spender, token |-> token,
   value |-> value, nonce |-> nonce,
   deadline |-> (clock \div 1000) + deadlineOffsetSeconds]

getPermit2DomainAnyChain(chainId) ==
  [name |-> "Permit2", version |-> "1", chainId |-> BASE_SEPOLIA_CHAIN_ID,
   verifyingContract |-> PERMIT2_ADDRESS]

getPermit2Domain(chainId) ==
  [name |-> "Permit2", version |-> "1", chainId |-> chainId,
   verifyingContract |-> PERMIT2_ADDRESS]

PermitValueUnclamped(permit) ==
  [details |-> [token |-> permit.token,
                amount |-> permit.value,
                expiration |-> IF permit.deadline > maxUint48 THEN maxUint48 ELSE permit.deadline,
                nonce |-> IF permit.nonce > maxUint48 THEN maxUint48 ELSE permit.nonce],
   spender |-> permit.spender,
   sigDeadline |-> permit.deadline]

\* the typed-data value verifyPermit2Signature builds (lines 174-192)
PermitValue(permit) ==
  [details |-> [token |-> permit.token,
                amount |-> IF permit.value > maxUint160 THEN maxUint160 ELSE permit.value,
                expiration |-> IF permit.deadline > maxUint48 THEN maxUint48 ELSE permit.deadline,
                nonce |-> IF permit.nonce > maxUint48 THEN maxUint48 ELSE permit.nonce],
   spender |-> permit.spender,
   sigDeadline |-> permit.deadline]

TypedDataHashDetailsOnly(domain, value) == <<domain, value.details>>

\* TypedDataEncoder.hash: a collision-free hash is the pair it hashes
TypedDataHash(domain, value) == <<domain, value>>

\* a signature string: absent, "", "dummy", a malformed hex string, or a
\* serialized signature by the key of `signer` over `digest`
NoSignature == [kind |-> "undefined", signer |-> "", digest |-> <<>>]
EmptySignature == [kind |-> "empty", signer |-> "", digest |-> <<>>]
DummySignature == [kind |-> "dummy", signer |-> "", digest |-> <<>>]
GarbageSignature == [kind |-> "garbage", signer |-> "", digest |-> <<>>]
UnauthenticatedSignature == [kind |-> "unauthenticated", signer |-> "", digest |-> <<>>]

SignedPermitValueUnclamped(permit) ==
  [details |-> [token |-> permit.token,
                amount |-> permit.value,
                expiration |-> permit.deadline,
                nonce |-> permit.nonce],
   spender |-> permit.spender,
   sigDeadline |-> permit.deadline]

\* the signed value with sigDeadline clamped like the expiration
SignedPermitValueDeadlineClamped(permit) ==
  [details |-> [token |-> permit.token,
                amount |-> IF permit.value > maxUint160 THEN maxUint160 ELSE permit.value,
                expiration |-> IF permit.deadline > maxUint48 THEN maxUint48 ELSE permit.deadline,
                nonce |-> IF permit.nonce > maxUint48 THEN maxUint48 ELSE permit.nonce],
   spender |-> permit.spender,
   sigDeadline |-> IF permit.deadline > maxUint48 THEN maxUint48 ELSE permit.deadline]

\* the typed-data value generatePermit2Signature builds (lines 123-144)
SignedPermitValue(permit) ==
  [details |-> [token |-> permit.token,
                amount |-> IF permit.value > maxUint160 THEN maxUint160 ELSE permit.value,
                expiration |-> IF permit.deadline > maxUint48 THEN maxUint48 ELSE permit.deadline,
                nonce |-> IF permit.nonce > maxUint48 THEN maxUint48 ELSE permit.nonce],
   spender |-> permit.spender,
   sigDeadline |-> permit.deadline]

generatePermit2Signature(signerAddress, permit, chainId) ==
  [kind |-> "sig", signer |-> signerAddress,
   digest |-> TypedDataHash(getPermit2Domain(chainId), SignedPermitValue(permit))]

\* ethers.recoverAddress throws on a string that is not a signature
RecoverThrows(signature) == signature.kind # "sig"
recoverAddress(digest, signature) ==
  IF signature.digest = digest THEN signature.signer ELSE UnrelatedAddress

\* a verification that also insists on the USDC token and the Permit2 spender
verifyPermit2SignatureUsdcOnly(permit, signature, chainId, expectedOwner) ==
  LET digest == TypedDataHash(getPermit2Domain(chainId), PermitValue(permit))
  IN  IF RecoverThrows(signature)
        THEN FALSE
        ELSE /\ permit.token = BASE_SEPOLIA_USDC
             /\ permit.spender = PERMIT2_ADDRESS
             /\ toLowerCase(recoverAddress(digest, signature)) = toLowerCase(expectedOwner)

\* verifyPermit2Signature (164-210), when nothing is thrown in its try block
verifyPermit2Signature(permit, signature, chainId, expectedOwner) ==
  LET digest == TypedDataHash(getPermit2Domain(chainId), PermitValue(permit))
  IN  IF RecoverThrows(signature)
        THEN FALSE
        ELSE toLowerCase(recoverAddress(digest, signature)) = toLowerCase(expectedOwner)

\* verifyUserAuthorization at clock value `clock`; chainId 0 stands for a missing chainId
ReconstructedPermitNonceOne(fromAddress, amount, clock) ==
  createPermit(fromAddress, PERMIT2_ADDRESS, BASE_SEPOLIA_USDC, amount, 1, 3600, clock)

\* the permit rebuilt when permitData is omitted (lines 511-518)
ReconstructedPermit(fromAddress, amount, clock) ==
  createPermit(fromAddress, PERMIT2_ADDRESS, BASE_SEPOLIA_USDC, amount, 0, 3600, clock)

IsBypassTokenUnauthenticated(signature) == signature.kind = "unauthenticated"

\* signature === "dummy" (line 468)
IsBypassToken(signature) == signature.kind = "dummy"

ValueDiffersIgnored(permitData, amount) == FALSE

\* permitData.value !== amount (line 492)
ValueDiffers(permitData, amount) == permitData.value # amount

PermitExpiredNever(permitData, clock) == FALSE

PermitExpiredInclusive(permitData, clock) == permitData.deadline <= clock \div 1000

\* permitData.deadline < currentTime, currentTime = floor(Date.now() / 1000) (498-499)
PermitExpired(permitData, clock) == permitData.deadline < clock \div 1000

\* the authorization check without the bypass of lines 468-471
verifyUserAuthorizationNoBypass(fromAddress, amount, signature, permitData, chainId, clock) ==
  IF chainId = 0 THEN FALSE
  ELSE IF permitData.present
    THEN IF toLowerCase(permitData.owner) # toLowerCase(fromAddress) THEN FALSE
         ELSE IF ValueDiffers(permitData, amount) THEN FALSE
         ELSE IF PermitExpired(permitData, clock) THEN FALSE
         ELSE verifyPermit2Signature(permitData, signature, chainId, fromAddress)
    ELSE verifyPermit2Signature(ReconstructedPermit(fromAddress, amount, clock),
                                signature, chainId, fromAddress)

\* verifyUserAuthorization (460-537)
verifyUserAuthorization(fromAddress, amount, signature, permitData, chainId, clock) ==
  IF IsBypassToken(signature) THEN TRUE
  ELSE IF chainId = 0 THEN FALSE
  ELSE IF permitData.present
    THEN IF toLowerCase(permitData.owner) # toLowerCase(fromAddress) THEN FALSE
         ELSE IF ValueDiffers(permitData, amount) THEN FALSE
         ELSE IF PermitExpired(permitData, clock) THEN FALSE
         ELSE verifyPermit2Signature(permitData, signature, chainId, fromAddress)
    ELSE verifyPermit2Signature(ReconstructedPermit(fromAddress, amount, clock),
                                signature, chainId, fromAddress)

MalformedToken == "not-an-address"
VerifyCatchRethrows(e) == [threw |-> TRUE, value |-> FALSE]

\* the catch of verifyPermit2Signature (206-209): logs error.message, returns false
VerifyCatch(e) == [threw |-> MessageThrows(e), value |-> FALSE]

\* what the try block of verifyPermit2Signature throws (170-204), NoError if nothing:
\* a TypeError for a missing permit or expectedOwner, the errors of ethers for an
\* address or a signature it cannot parse
VerifyThrown(permit, signature, chainId, expectedOwner) ==
  IF ~permit.present
    THEN MkError(<<"Cannot read properties of undefined (reading 'value')">>)
  ELSE IF MalformedToken \in {permit.token, permit.spender}
    THEN MkError(<<"invalid address">>)
  ELSE IF RecoverThrows(signature)
    THEN MkError(<<"invalid BytesLike value">>)
  ELSE IF expectedOwner = Undefined
    THEN MkError(<<"Cannot read properties of undefined (reading 'toLowerCase')">>)
  ELSE NoError

\* how a call of verifyPermit2Signature completes: whether it threw, and its value
VerifyCompletion(permit, signature, chainId, expectedOwner) ==
  LET e == VerifyThrown(permit, signature, chainId, expectedOwner)
  IN  IF e # NoError
        THEN VerifyCatch(e)
        ELSE [threw |-> FALSE,
              value |-> verifyPermit2Signature(permit, signature, chainId, expectedOwner)]

-----------------------------------------------------------------------------
(* The request and the values the collaborators return *)

AmountStrings == {"1.0", "0.000249", "0", "-1", "abc"}

\* parseFloat(amount) is NaN
AmountIsNaN(amount) == amount = "abc"

\* Math.floor(parseFloat(amount) * 1_000_000), in IEEE-754 double arithmetic:
\* 1.0 * 1000000 is 1000000 exactly, while the double nearest to 0.000249 times
\* 1000000 rounds to 248.99999999999997, which Math.floor takes down to 248
AmountFloor(amount) ==
  CASE amount = "1.0" -> 1000000
    [] amount = "0.000249" -> 248
    [] amount = "0" -> 0
    [] amount = "-1" -> -1000000
    [] OTHER -> 0

\* BigInt(NaN) throws a RangeError
RangeErrorNaN ==
  MkError(<<"The number NaN cannot be converted to a BigInt because it is not an integer">>)

\* the permit the user signed: createPermit for 1.0 USDC at the time of the call
SignedPermit ==
  createPermit(UserAddressLower, PERMIT2_ADDRESS, BASE_SEPOLIA_USDC, 1000000, 0, 3600, StartClock)

UserSignature == generatePermit2Signature(UserAddress, SignedPermit, BASE_SEPOLIA_CHAIN_ID)

Permits ==
  { NoPermit,
    SignedPermit,
    [SignedPermit EXCEPT !.deadline = (StartClock \div 1000) - 1],
    [SignedPermit EXCEPT !.value = 200000],
    [SignedPermit EXCEPT !.owner = OtherAddress] }

Signatures == {NoSignature, EmptySignature, DummySignature, GarbageSignature, UserSignature}

\* !!x for a string field of the request
Truthy(field) == field # Undefined /\ field # ""
SignatureTruthy(signature) == signature.kind \notin {"undefined", "empty"}

\* the module-level configuration read from the environment (config.ts 31-40), absent
\* from the request type (440-449), and the override the caller may attach as request.config
config ==
  [present |-> TRUE, baseRpcUrl |-> "env-base-rpc", aptosRpcUrl |-> "env-aptos-rpc",
   baseSponsorPrivateKey |-> "env-base-key", aptosSponsorPrivateKey |-> "env-aptos-key",
   networkType |-> "Testnet"]
NoConfig ==
  [present |-> FALSE, baseRpcUrl |-> "", aptosRpcUrl |-> "",
   baseSponsorPrivateKey |-> "", aptosSponsorPrivateKey |-> "", networkType |-> ""]
RequestConfig ==
  [present |-> TRUE, baseRpcUrl |-> "request-base-rpc", aptosRpcUrl |-> "request-aptos-rpc",
   baseSponsorPrivateKey |-> "request-base-key", aptosSponsorPrivateKey |-> "request-aptos-key",
   networkType |-> "Mainnet"]

Requests(v) ==
  IF v = 1
    THEN [amount : AmountStrings, destAddress : {Undefined, DestAddress},
          fromAddress : {Undefined}, signature : {NoSignature}, permitData : {NoPermit},
          config : {NoConfig}]
    ELSE [amount : AmountStrings, destAddress : {Undefined, DestAddress},
          fromAddress : {Undefined, "", UserAddress}, signature : Signatures,
          permitData : Permits, config : {NoConfig, RequestConfig}]

\* chain ids the provider's getNetwork reports
ChainIds == {BASE_SEPOLIA_CHAIN_ID, 8453}

\* values initiateTransfer and completeTransfer resolve to: one id or a list of ids
TxidResults(a, b) ==
  { [isArray |-> FALSE, items |-> <<a>>],
    [isArray |-> TRUE, items |-> <<>>],
    [isArray |-> TRUE, items |-> <<a>>],
    [isArray |-> TRUE, items |-> <<a, b>>] }

NoTxids == [isArray |-> FALSE, items |-> <<Undefined>>]

\* Array.isArray(x) ? x[0] : x
FirstTxid(txids) ==
  IF txids.isArray
    THEN IF Len(txids.items) = 0 THEN Undefined ELSE txids.items[1]
    ELSE txids.items[1]

\* values fetchAttestation resolves to
UndefinedIds == [defined |-> FALSE, ids |-> <<>>]
AttestationResults ==
  { UndefinedIds,
    [defined |-> TRUE, ids |-> <<>>],
    [defined |-> TRUE, ids |-> <<"att1">>],
    [defined |-> TRUE, ids |-> <<"att1", "att2">>] }

\* attestationIds && attestationIds.length > 0
HasAttestation(a) == a.defined /\ Len(a.ids) > 0

\* The clock advances during the awaited calls after which the function reads it:
\* getNetwork (none or a second), an attestation query (half of its timeout or all
\* of it) and a backoff sleep (its interval and a lateness of whole steps).
Latencies == {0, 1000}
QueryDurationsInstant(timeout) == {0, timeout}

QueryDurations(timeout) == {timeout \div 2, timeout}
Lateness == {k * (PerAttemptTimeout \div 2) : k \in 0..MaxLate}

CallNames ==
  {"wormhole", "getEvmSigner", "getAptosSigner", "getNetwork", "circleTransfer",
   "quoteTransfer", "getTransactionCount", "toEvmSdkSigner", "initiateTransfer",
   "fetchAttestation", "setTimeout", "toAptosSdkSigner", "completeTransfer"}

Bump(c, name) == [c EXCEPT ![name] = IF @ < MaxCalls THEN @ + 1 ELSE @]

-----------------------------------------------------------------------------
(* The library functions called on their own: arguments and results *)

LibAddresses == {UserAddress, UserAddressLower, OtherAddress}
KeyAddresses == {UserAddress, OtherAddress}       \* addresses of the signing keys
LibChainIds == {BASE_SEPOLIA_CHAIN_ID, 8453}
LibSpenders == {PERMIT2_ADDRESS, SponsorAddress, OtherAddress}
LibTokens == {BASE_SEPOLIA_USDC, "0xOtherToken"}
LibAmounts == {200000, 1000000}
LibDeadlines == {(StartClock \div 1000) - 1, StartClock \div 1000, (StartClock \div 1000) + 3600}

\* arguments of createPermit; offsetGiven is FALSE when the sixth is omitted
NoArgs ==
  [owner |-> "", spender |-> "", token |-> "", value |-> 0, nonce |-> 0,
   offsetGiven |-> FALSE, offset |-> 0]
CreateArgs ==
  [owner : {UserAddress, OtherAddress}, spender : {PERMIT2_ADDRESS},
   token : {BASE_SEPOLIA_USDC}, value : {1000000, maxUint160 + 1},
   nonce : {0, maxUint48 + 1}, offsetGiven : {TRUE}, offset : {0, 60, 3600}]
    \cup [owner : {UserAddress, OtherAddress}, spender : {PERMIT2_ADDRESS},
          token : {BASE_SEPOLIA_USDC}, value : {1000000, maxUint160 + 1},
          nonce : {0, maxUint48 + 1}, offsetGiven : {FALSE}, offset : {0}]

\* permits handed to verifyPermit2Signature called on its own: missing, well-formed,
\* and with a token that is not an address
VerifyPermits ==
  {NoPermit}
    \cup [present : {TRUE}, owner : {UserAddressLower, OtherAddress},
          spender : {PERMIT2_ADDRESS}, token : {BASE_SEPOLIA_USDC, MalformedToken},
          value : {1000000, maxUint160 + 1}, nonce : {0, maxUint48 + 1},
          deadline : {(StartClock \div 1000) + 3600}]
\* signature strings handed to it: absent, empty, not hex, and signatures over the
\* well-formed permit
VerifySignatures(permit) ==
  {NoSignature, EmptySignature, DummySignature, GarbageSignature}
    \cup { generatePermit2Signature(
               k, IF permit.present THEN [permit EXCEPT !.token = BASE_SEPOLIA_USDC]
                  ELSE SignedPermit, c) :
             k \in KeyAddresses, c \in LibChainIds }

\* the fields of Config that getRequiredEnv guards (config.ts 32-35), and those with
\* networkType, which has a default (36)
RequiredKeys == {"baseRpcUrl", "aptosRpcUrl", "baseSponsorPrivateKey", "aptosSponsorPrivateKey"}
ConfigKeys == RequiredKeys \cup {"networkType"}

\* getRequiredEnv(key) throws when process.env[key] is missing or empty (19-25)
getRequiredEnvThrows(env, key) == ~Truthy(env[key])

\* createConfig(override) (47-62): whether it throws, and the object it returns
createConfig(env, override) ==
  [threw |-> \E k \in RequiredKeys : ~Truthy(override[k]) /\ getRequiredEnvThrows(env, k),
   value |-> [k \in ConfigKeys |->
                IF Truthy(override[k]) THEN override[k]
                ELSE IF k \in RequiredKeys \/ Truthy(env[k]) THEN env[k]
                ELSE "Testnet"]]

NoInput ==
  [fromAddress |-> "", amount |-> 0, signature |-> NoSignature, permitData |-> NoPermit,
   chainId |-> 0, clock |-> 0, signerAddress |-> "", signedPermit |-> NoPermit,
   signedChainId |-> 0, expectedOwner |-> "", args |-> NoArgs,
   env |-> [k \in ConfigKeys |-> Undefined], override |-> [k \in ConfigKeys |-> Undefined]]

NoOutput ==
  [stage |-> "none", value |-> FALSE, signature |-> NoSignature,
   signedValue |-> SignedPermitValue(NoPermit), verifiedValue |-> PermitValue(NoPermit),
   threw |-> FALSE, permit |-> NoPermit, again |-> FALSE, laterClock |-> 0,
   config |-> [k \in ConfigKeys |-> Undefined]]

\* permits presented to verifyUserAuthorization
AuthPermits ==
  [present : {TRUE}, owner : LibAddresses, spender : LibSpenders, token : LibTokens,
   value : LibAmounts, nonce : {0, 1}, deadline : LibDeadlines]

\* signatures presented to verifyUserAuthorization for a given call: the literal
\* strings, and real signatures over the presented or the reconstructed permit
AuthSignatures(fromAddress, amount, permitData, clock) ==
  {DummySignature, UnauthenticatedSignature, GarbageSignature}
    \cup { generatePermit2Signature(
               k, IF permitData.present THEN permitData
                  ELSE createPermit(fromAddress, PERMIT2_ADDRESS, BASE_SEPOLIA_USDC,
                                    amount, 0, 3600, clock), c) :
             k \in KeyAddresses, c \in LibChainIds }

\* permits handed to generatePermit2Signature, with values below, at and above the clamps
SignPermits ==
  [present : {TRUE}, owner : {UserAddressLower, OtherAddress}, spender : {PERMIT2_ADDRESS},
   token : {BASE_SEPOLIA_USDC},
   value : {1000000, maxUint160, maxUint160 + 1, maxUint160 + 2},
   nonce : {0, maxUint48, maxUint48 + 1},
   deadline : {(StartClock \div 1000) + 3600, maxUint48 + 1}]

\* the permit p and the permits that differ from it in one field
SingleFieldVariants(p) ==
  {p}
    \cup {[p EXCEPT !.owner = x] : x \in LibAddresses}
    \cup {[p EXCEPT !.spender = x] : x \in LibSpenders}
    \cup {[p EXCEPT !.token = x] : x \in LibTokens}
    \cup {[p EXCEPT !.value = x] : x \in {200000, 1000000, maxUint160, maxUint160 + 1, maxUint160 + 2}}
    \cup {[p EXCEPT !.nonce = x] : x \in {0, 1, maxUint48, maxUint48 + 1, maxUint48 + 2}}
    \cup {[p EXCEPT !.deadline = x] : x \in LibDeadlines \cup {maxUint48 + 1, maxUint48 + 2}}

-----------------------------------------------------------------------------
(* Concurrent executions and the command-line runner, idle during one transfer *)

FlowIds == {1, 2}
NoFlow == [pc |-> "absent", fromAddress |-> Undefined, sourceAddress |-> Undefined,
           signer |-> Undefined, nonce |-> 0, outcome |-> "none"]
NoFlows == [f \in FlowIds |-> NoFlow]
NoPending == [a \in {SponsorAddress, UserAddress, OtherAddress} |-> 0]
\* what parseArgs collected: the value after each flag, Undefined when not given
NoParsed ==
  [amount |-> Undefined, to |-> Undefined, from |-> Undefined, sig |-> Undefined,
   permitDataJson |-> Undefined, help |-> FALSE]
NoCli ==
  [pc |-> "idle", args |-> <<>>, parsed |-> NoParsed, exitCode |-> -1,
   invoked |-> FALSE, result |-> "none"]

-----------------------------------------------------------------------------
(* The promise returned by transferUsdcViaCctp *)

Pending ==
  [state |-> "pending", success |-> FALSE, sourceTx |-> Undefined,
   attestationId |-> Undefined, destinationTx |-> Undefined, error |-> <<>>,
   reason |-> NoError]

\* return { success: true, sourceTx, attestationId: attestationIds[0], destinationTx }
Success(src, att, dst) ==
  [state |-> "fulfilled", success |-> TRUE, sourceTx |-> src,
   attestationId |-> att, destinationTx |-> dst, error |-> <<>>, reason |-> NoError]

\* error.message || String(error)
ErrorText(e) == IF HasMessage(e) /\ e.text # <<>> THEN e.text ELSE StringOf(e)

\* the top-level catch: console.error reads error.message, then the failed result is returned
Caught(e) ==
  IF MessageThrows(e)
    THEN [Pending EXCEPT !.state = "rejected", !.reason = TypeErrorOnMessage]
    ELSE [Pending EXCEPT !.state = "fulfilled", !.error = ErrorText(e)]

-----------------------------------------------------------------------------
(* Errors the function itself creates *)

AuthorizationFailed == MkError(<<"User authorization verification failed">>)

\* line 369: thrown in the catch of the polling loop
TimeoutInCatch ==
  MkError(<<"Attestation not received after ", ToString(MaxTimeout \div 1000), " seconds. ",
            "This can happen if Circle's attestation service is slow. ",
            "Please check the transaction on Base Sepolia explorer and try again later.">>)

\* the message after the loop without the number of seconds
TimeoutAfterLoopNoSeconds ==
  MkError(<<"Attestation not received. ",
            "Please check the transaction on Base Sepolia explorer and try again later.">>)

\* line 388: thrown after the polling loop
TimeoutAfterLoop ==
  MkError(<<"Attestation not received after ", ToString(MaxTimeout \div 1000), " seconds. ",
            "Please check the transaction on Base Sepolia explorer and try again later.">>)

\* line 682
NotReceivedAfterTimeout == MkError(<<"Attestation not received after ", "timeout">>)

\* line 685: the error of the single fetch, wrapped
WrappedTimeout(e) ==
  MkError(<<"Attestation not received after ", "180", " seconds. ",
            "This can happen if Circle's attestation service is slow. ",
            "Please check the transaction on Base Sepolia explorer and try again later. ",
            "Error: ">> \o TemplateMessage(e))

-----------------------------------------------------------------------------
(* State machine *)

Min(a, b) == IF a < b THEN a ELSE b

\* the interval grown without the cap
NextDelayUncapped(d) == (d * 3) \div 2

\* delay = Math.min(delay * 1.5, 30000)
NextDelay(d) == Min((d * 3) \div 2, MaxDelay * DelayScale)

\* milliseconds a setTimeout(resolve, delay) lasts when it fires on time
SleepMs(d) == d \div DelayScale

\* attestationIds[0]
FirstId(a) == IF Len(a.ids) = 0 THEN Undefined ELSE a.ids[1]

NoFetch == [kind |-> "none", ids |-> UndefinedIds, err |-> NoError]
FetchedList(a) == [kind |-> "list", ids |-> a, err |-> NoError]
FetchedThrow(e) == [kind |-> "throw", ids |-> UndefinedIds, err |-> e]

\* error.message?.includes('timeout') || error.message?.includes('not found')
IsNotReadyError(e) == MessageIncludes(e, "timeout") \/ MessageIncludes(e, "not found")

\* a query outcome that means "not yet available": the not-found/timeout error
\* or a list without an attestation
NotYetAvailable(f) ==
  \/ f.kind = "throw" /\ IsNotReadyError(f.err)
  \/ f.kind = "list" /\ ~HasAttestation(f.ids)

Init ==
  /\ ver \in {1, 2}
  /\ request \in Requests(ver)
  /\ pc = "wormhole"
  /\ now = StartClock
  /\ calls = [n \in CallNames |-> IF n = "wormhole" THEN 1 ELSE 0]
  /\ amountBigInt = 0
  /\ sourceAddress = Undefined
  /\ srcTxids = NoTxids
  /\ sourceTx = Undefined
  /\ delay = 0
  /\ startTime = 0
  /\ attestationIds = UndefinedIds
  /\ fetched = NoFetch
  /\ onlyNotYet = TRUE
  /\ isValid = "unset"
  /\ thrown = NoError
  /\ result = Pending
  /\ txSigner = Undefined
  /\ usedConfig \in {config, [config EXCEPT !.networkType = "Mainnet"]}
  /\ usedConfig.networkType = "Mainnet" =>
       ver = 2 /\ request.destAddress = Undefined /\ ~request.config.present
  /\ relayerPending = "unset"
  /\ op = "none"
  /\ input = NoInput
  /\ output = NoOutput
  /\ flows = NoFlows
  /\ pendingCount = NoPending
  /\ cli = NoCli

\* an exception reaches the top-level catch (lines 408-414, 713-719)
Fail(e) ==
  /\ pc' = "done"
  /\ thrown' = e
  /\ result' = Caught(e)

Continue(next) ==
  /\ pc' = next
  /\ UNCHANGED <<thrown, result>>

\* wormhole(...) settles; getEvmSigner, then getAptosSigner is awaited (284-300, 556-572)
WormholeReturns ==
  /\ pc = "wormhole"
  /\ UNCHANGED now
  /\ \/ \E e \in ExternalThrows : Fail(e) /\ UNCHANGED calls
     \/ \E e \in ExternalThrows :
          Fail(e) /\ calls' = Bump(calls, "getEvmSigner")
     \/ /\ Continue("getAptosSigner")
        /\ calls' = Bump(Bump(calls, "getEvmSigner"), "getAptosSigner")
  /\ UNCHANGED <<txSigner, usedConfig, relayerPending, otherVars>>
  /\ UNCHANGED <<ver, request, amountBigInt, sourceAddress, srcTxids, sourceTx,
                 delay, startTime, attestationIds, fetched, onlyNotYet, isValid>>

\* const useUserWallet = !!request.fromAddress && !!request.signature
useUserWalletAddressOnly == Truthy(request.fromAddress)

\* const useUserWallet = !!request.fromAddress && !!request.signature (line 585)
useUserWallet == Truthy(request.fromAddress) /\ SignatureTruthy(request.signature)

\* getAptosSigner settles; the amount is parsed and the source identity resolved
\* (306-332, 578-592 and 619-644)
GetAptosSignerReturns ==
  /\ pc = "getAptosSigner"
  /\ UNCHANGED now
  /\ \/ /\ \E e \in ExternalThrows : Fail(e)
        /\ UNCHANGED <<calls, amountBigInt, sourceAddress>>
     \/ /\ AmountIsNaN(request.amount)
        /\ Fail(RangeErrorNaN)
        /\ UNCHANGED <<calls, amountBigInt, sourceAddress>>
     \/ /\ ~AmountIsNaN(request.amount)
        /\ amountBigInt' = AmountFloor(request.amount)
        /\ IF ver = 2 /\ useUserWallet
             THEN /\ sourceAddress' = request.fromAddress
                  /\ calls' = Bump(calls, "getNetwork")
                  /\ Continue("getNetwork")
             ELSE /\ sourceAddress' = SponsorAddress
                  /\ calls' = Bump(calls, "circleTransfer")
                  /\ Continue("circleTransfer")
  /\ UNCHANGED <<txSigner, usedConfig, relayerPending, otherVars>>
  /\ UNCHANGED <<ver, request, srcTxids, sourceTx, delay, startTime, attestationIds, fetched,
                 onlyNotYet, isValid>>

\* the verdict of the verification ignored
AfterVerificationIgnored(valid) ==
  Continue("circleTransfer") /\ calls' = Bump(calls, "circleTransfer")

\* if (!isValid) throw ...; otherwise the transfer is created (608-644)
AfterVerification(valid) ==
  IF valid
    THEN Continue("circleTransfer") /\ calls' = Bump(calls, "circleTransfer")
    ELSE Fail(AuthorizationFailed) /\ UNCHANGED calls

\* baseSigner.provider.getNetwork() settles; the authorization is verified (592-606)
GetNetworkReturns ==
  /\ pc = "getNetwork"
  /\ \E lat \in Latencies : now' = now + lat
  /\ \/ /\ \E e \in ExternalThrows : Fail(e)
        /\ UNCHANGED <<calls, isValid>>
     \/ \E chainId \in ChainIds :
          LET valid == verifyUserAuthorization(sourceAddress, amountBigInt, request.signature,
                                               request.permitData, chainId, now')
          IN  /\ isValid' = IF valid THEN "true" ELSE "false"
              /\ AfterVerification(valid)
  /\ UNCHANGED <<txSigner, usedConfig, relayerPending, otherVars>>
  /\ UNCHANGED <<ver, request, amountBigInt, sourceAddress, srcTxids, sourceTx,
                 delay, startTime, attestationIds, fetched, onlyNotYet>>

\* circleTransfer.initiateTransfer(signer) is called with the relayer's signer:
\* baseSigner.signer (344), toEvmSdkSigner(baseSigner.signer) (667-668)
CallInitiateTransfer ==
  /\ Continue("initiateTransfer")
  /\ calls' = Bump(calls, "initiateTransfer")
  /\ txSigner' = SponsorAddress

\* wh.circleTransfer(...) settles; the quote is requested (325-339, 637-652)
CircleTransferReturns ==
  /\ pc = "circleTransfer"
  /\ UNCHANGED now
  /\ \/ \E e \in ExternalThrows : Fail(e) /\ UNCHANGED calls
     \/ Continue("quoteTransfer") /\ calls' = Bump(calls, "quoteTransfer")
  /\ UNCHANGED <<txSigner, usedConfig, relayerPending, otherVars>>
  /\ UNCHANGED <<ver, request, amountBigInt, sourceAddress, srcTxids, sourceTx,
                 delay, startTime, attestationIds, fetched, onlyNotYet, isValid>>

\* CircleTransfer.quoteTransfer settles: fatal when it throws in version 1 (335-344),
\* ignored in version 2, which goes on to read the nonce (647-663)
QuoteTransferReturns ==
  /\ pc = "quoteTransfer"
  /\ UNCHANGED now
  /\ IF ver = 1
       THEN \/ \E e \in ExternalThrows : Fail(e) /\ UNCHANGED <<calls, txSigner>>
            \/ CallInitiateTransfer
       ELSE /\ Continue("getTransactionCount")
            /\ calls' = Bump(calls, "getTransactionCount")
            /\ UNCHANGED txSigner
  /\ UNCHANGED <<usedConfig, relayerPending, otherVars>>
  /\ UNCHANGED <<ver, request, amountBigInt, sourceAddress, srcTxids, sourceTx,
                 delay, startTime, attestationIds, fetched, onlyNotYet, isValid>>

\* baseSigner.provider.getTransactionCount(address, 'pending') settles; the count is
\* logged and the signer is wrapped, whether or not the account has a pending
\* transaction (663-667)
GetTransactionCountReturns ==
  /\ pc = "getTransactionCount"
  /\ UNCHANGED now
  /\ \/ \E e \in ExternalThrows : Fail(e) /\ UNCHANGED <<calls, relayerPending>>
     \/ /\ \E p \in {"pending", "clear"} : relayerPending' = p
        /\ Continue("toEvmSdkSigner")
        /\ calls' = Bump(calls, "toEvmSdkSigner")
  /\ UNCHANGED <<txSigner, usedConfig, otherVars>>
  /\ UNCHANGED <<ver, request, amountBigInt, sourceAddress, srcTxids, sourceTx,
                 delay, startTime, attestationIds, fetched, onlyNotYet, isValid>>

\* toEvmSdkSigner settles; initiateTransfer is called (667-668)
ToEvmSdkSignerReturns ==
  /\ pc = "toEvmSdkSigner"
  /\ UNCHANGED now
  /\ \/ \E e \in ExternalThrows : Fail(e) /\ UNCHANGED <<calls, txSigner>>
     \/ CallInitiateTransfer
  /\ UNCHANGED <<usedConfig, relayerPending, otherVars>>
  /\ UNCHANGED <<ver, request, amountBigInt, sourceAddress, srcTxids, sourceTx,
                 delay, startTime, attestationIds, fetched, onlyNotYet, isValid>>

\* the while condition with the deadline itself still inside the window
LoopConditionInclusive(t) == t - startTime <= MaxTimeout

\* the while condition of the polling loop at clock value t (line 357)
LoopCondition(t) == t - startTime < MaxTimeout

\* the loop head without the test of line 387 after the loop
LoopHeadUnchecked(t, ids) ==
  IF LoopCondition(t)
    THEN Continue("fetchAttestation") /\ calls' = Bump(calls, "fetchAttestation")
    ELSE Continue("completeTransfer") /\ calls' = Bump(calls, "completeTransfer")

\* control reaches the head of the polling loop at clock value t with attestationIds = ids:
\* the next query is issued, or the loop ends and line 387 decides
LoopHead(t, ids) ==
  IF LoopCondition(t)
    THEN Continue("fetchAttestation") /\ calls' = Bump(calls, "fetchAttestation")
    ELSE IF ~HasAttestation(ids)
      THEN Fail(TimeoutAfterLoop) /\ UNCHANGED calls
      ELSE Continue("completeTransfer") /\ calls' = Bump(calls, "completeTransfer")

\* initiateTransfer settles; the attestation is requested
\* (344-359 with the first test of the loop, 668-678)
InitiateTransferReturns ==
  /\ pc = "initiateTransfer"
  /\ UNCHANGED now
  /\ \/ /\ \E e \in ExternalThrows : Fail(e)
        /\ UNCHANGED <<calls, srcTxids, sourceTx, delay, startTime>>
     \/ /\ \E txids \in TxidResults("0xsrc1", "0xsrc2") :
             /\ srcTxids' = txids
             /\ sourceTx' = FirstTxid(txids)
        /\ IF ver = 1
             THEN /\ delay' = InitialDelay * DelayScale
                  /\ startTime' = now
             ELSE UNCHANGED <<delay, startTime>>
        /\ Continue("fetchAttestation")
        /\ calls' = Bump(calls, "fetchAttestation")
  /\ UNCHANGED <<txSigner, usedConfig, relayerPending, otherVars>>
  /\ UNCHANGED <<ver, request, amountBigInt, sourceAddress, attestationIds, fetched,
                 onlyNotYet, isValid>>

\* the break taken only while the deadline has not passed
BreakWithAttestationBeforeDeadline(t) ==
  IF LoopCondition(t)
    THEN Continue("completeTransfer") /\ calls' = Bump(calls, "completeTransfer")
    ELSE Fail(TimeoutAfterLoop) /\ UNCHANGED calls

\* version 1: a query that returned an attestation leaves the loop (360-363); the check
\* after the loop passes (387) and completeTransfer is called (396), whatever the time t
BreakWithAttestation(t) ==
  Continue("completeTransfer") /\ calls' = Bump(calls, "completeTransfer")

\* version 1: fetchAttestation(10000) settles inside the polling loop (357-385),
\* followed by the code after the loop when the loop ends (387-396)
PollFetchReturns ==
  /\ pc = "fetchAttestation"
  /\ ver = 1
  /\ \E dur \in QueryDurations(PerAttemptTimeout) : now' = now + dur
  /\ \/ \E ids \in AttestationResults :
          /\ fetched' = FetchedList(ids)
          /\ attestationIds' = ids
          /\ IF HasAttestation(ids)
               THEN BreakWithAttestation(now')
               ELSE LoopHead(now', ids)
     \/ \E e \in ExternalThrows :
          /\ fetched' = FetchedThrow(e)
          /\ UNCHANGED attestationIds
          /\ IF MaxTimeout - (now' - startTime) <= 0
               THEN Fail(TimeoutInCatch) /\ UNCHANGED calls
               ELSE IF MessageThrows(e)
                 THEN Fail(TypeErrorOnMessage) /\ UNCHANGED calls
                 ELSE IF IsNotReadyError(e)
                   THEN Continue("setTimeout") /\ calls' = Bump(calls, "setTimeout")
                   ELSE Fail(e) /\ UNCHANGED calls
  /\ onlyNotYet' = (onlyNotYet /\ NotYetAvailable(fetched'))
  /\ UNCHANGED <<txSigner, usedConfig, relayerPending, otherVars>>
  /\ UNCHANGED <<ver, request, amountBigInt, sourceAddress, srcTxids, sourceTx,
                 delay, startTime, isValid>>

\* version 1: the backoff sleep ends, the interval grows and the loop goes round (379-380, 357)
SleepReturns ==
  /\ pc = "setTimeout"
  /\ \E late \in Lateness : now' = now + SleepMs(delay) + late
  /\ delay' = NextDelay(delay)
  /\ LoopHead(now', attestationIds)
  /\ UNCHANGED <<txSigner, usedConfig, relayerPending, otherVars>>
  /\ UNCHANGED <<ver, request, amountBigInt, sourceAddress, srcTxids, sourceTx,
                 startTime, attestationIds, fetched, onlyNotYet, isValid>>

\* version 2: fetchAttestation(180000) settles (676-701)
SingleFetchReturns ==
  /\ pc = "fetchAttestation"
  /\ ver = 2
  /\ \E dur \in QueryDurations(SingleFetchTimeout) : now' = now + dur
  /\ \/ \E ids \in AttestationResults :
          /\ fetched' = FetchedList(ids)
          /\ attestationIds' = ids
          /\ IF HasAttestation(ids)
               THEN \/ \E e \in ExternalThrows :
                         Fail(e) /\ calls' = Bump(calls, "toAptosSdkSigner")
                    \/ /\ Continue("completeTransfer")
                       /\ calls' = Bump(Bump(calls, "toAptosSdkSigner"), "completeTransfer")
               ELSE Fail(WrappedTimeout(NotReceivedAfterTimeout)) /\ UNCHANGED calls
     \/ \E e \in ExternalThrows :
          /\ fetched' = FetchedThrow(e)
          /\ UNCHANGED <<attestationIds, calls>>
          /\ IF MessageThrows(e)
               THEN Fail(TypeErrorOnMessage)
               ELSE Fail(WrappedTimeout(e))
  /\ onlyNotYet' = (onlyNotYet /\ NotYetAvailable(fetched'))
  /\ UNCHANGED <<txSigner, usedConfig, relayerPending, otherVars>>
  /\ UNCHANGED <<ver, request, amountBigInt, sourceAddress, srcTxids, sourceTx,
                 delay, startTime, isValid>>

\* completeTransfer settles and the result is returned (396-407, 701-712)
CompleteTransferReturns ==
  /\ pc = "completeTransfer"
  /\ UNCHANGED now
  /\ \/ \E e \in ExternalThrows : Fail(e)
     \/ \E txids \in TxidResults("0xdst1", "0xdst2") :
          /\ pc' = "done"
          /\ result' = Success(sourceTx, FirstId(attestationIds), FirstTxid(txids))
          /\ UNCHANGED thrown
  /\ UNCHANGED <<txSigner, usedConfig, relayerPending, otherVars>>
  /\ UNCHANGED <<ver, request, calls, amountBigInt, sourceAddress, srcTxids, sourceTx,
                 delay, startTime, attestationIds, fetched, onlyNotYet, isValid>>

Next ==
  \/ WormholeReturns
  \/ GetAptosSignerReturns
  \/ GetNetworkReturns
  \/ CircleTransferReturns
  \/ QuoteTransferReturns
  \/ GetTransactionCountReturns
  \/ ToEvmSdkSignerReturns
  \/ InitiateTransferReturns
  \/ PollFetchReturns
  \/ SleepReturns
  \/ SingleFetchReturns
  \/ CompleteTransferReturns

Spec == Init /\ [][Next]_vars

\* every pending call of the SDK and every timer eventually settles
FairSpec == Spec /\ WF_vars(Next)

-----------------------------------------------------------------------------
(* The library functions called on their own.  No transfer runs: the       *)
(* variables of the transfer keep their values.                            *)

IdleRequest ==
  [amount |-> "1.0", destAddress |-> Undefined, fromAddress |-> Undefined,
   signature |-> NoSignature, permitData |-> NoPermit, config |-> NoConfig]

LibInit ==
  /\ ver = 2
  /\ request = IdleRequest
  /\ pc = "idle"
  /\ now = StartClock
  /\ calls = [n \in CallNames |-> 0]
  /\ amountBigInt = 0
  /\ sourceAddress = Undefined
  /\ srcTxids = NoTxids
  /\ sourceTx = Undefined
  /\ delay = 0
  /\ startTime = 0
  /\ attestationIds = UndefinedIds
  /\ fetched = NoFetch
  /\ onlyNotYet = TRUE
  /\ isValid = "unset"
  /\ thrown = NoError
  /\ result = Pending
  /\ txSigner = Undefined
  /\ usedConfig = config
  /\ relayerPending = "unset"
  /\ flows = NoFlows
  /\ pendingCount = NoPending
  /\ cli = NoCli
  /\ output = [NoOutput EXCEPT !.stage = "called"]
  /\ \/ /\ op = "verifyUserAuthorization"
        /\ \E f \in LibAddresses, a \in LibAmounts, p \in AuthPermits \cup {NoPermit},
              c \in LibChainIds \cup {0} :
             \E sig \in AuthSignatures(f, a, p, StartClock) :
               input = [NoInput EXCEPT !.fromAddress = f, !.amount = a, !.signature = sig,
                                       !.permitData = p, !.chainId = c, !.clock = StartClock]
     \/ /\ op = "generatePermit2Signature"
        /\ \E k \in KeyAddresses, sp \in SignPermits, sc \in LibChainIds,
              c \in LibChainIds, eo \in LibAddresses :
             \E p \in SingleFieldVariants(sp) :
               input = [NoInput EXCEPT !.signerAddress = k, !.signedPermit = sp,
                                       !.signedChainId = sc, !.permitData = p,
                                       !.chainId = c, !.expectedOwner = eo]
     \/ /\ op = "verifyPermit2Signature"
        /\ \E p \in VerifyPermits, c \in LibChainIds \cup {0},
              eo \in LibAddresses \cup {Undefined} :
             \E sig \in VerifySignatures(p) :
               input = [NoInput EXCEPT !.permitData = p, !.signature = sig,
                                       !.chainId = c, !.expectedOwner = eo]
     \/ /\ op = "createPermit"
        /\ \E a \in CreateArgs, t \in {StartClock, StartClock + 999, StartClock + 1000} :
             input = [NoInput EXCEPT !.args = a, !.clock = t]
     \/ /\ op = "createConfig"
        /\ \E e \in [RequiredKeys -> {Undefined, "from-env"}],
              o \in [RequiredKeys -> {Undefined, "", "from-override"}],
              en \in {Undefined, "Mainnet"}, on \in {Undefined, "Testnet", "Mainnet"} :
             input = [NoInput EXCEPT
                        !.env = [k \in ConfigKeys |-> IF k \in RequiredKeys THEN e[k] ELSE en],
                        !.override = [k \in ConfigKeys |->
                                        IF k \in RequiredKeys THEN o[k] ELSE on]]

\* verifyUserAuthorization(fromAddress, amount, signature, permitData, chainId) returns
VerifyUserAuthorizationCall ==
  /\ op = "verifyUserAuthorization"
  /\ output.stage = "called"
  /\ output' = [output EXCEPT
        !.stage = "returned",
        !.value = verifyUserAuthorization(input.fromAddress, input.amount, input.signature,
                                          input.permitData, input.chainId, input.clock)]
  /\ UNCHANGED <<op, input, transferVars, flowVars, cli>>

\* a later call in which a permit that authorized once is refused as spent
VerifyUserAuthorizationAgainNonceSpent ==
  /\ op = "verifyUserAuthorization"
  /\ output.stage = "returned"
  /\ \E t \in {input.clock + 1000, input.clock + 3601000} :
       output' = [output EXCEPT
          !.stage = "repeated",
          !.laterClock = t,
          !.again = /\ ~output.value
                    /\ verifyUserAuthorization(input.fromAddress, input.amount,
                                                input.signature, input.permitData,
                                                input.chainId, t)]
  /\ UNCHANGED <<op, input, transferVars, flowVars, cli>>

\* verifyUserAuthorization is called a second time with the same arguments, a second
\* or an hour and a second later; the function keeps nothing between calls (460-537)
VerifyUserAuthorizationAgain ==
  /\ op = "verifyUserAuthorization"
  /\ output.stage = "returned"
  /\ \E t \in {input.clock + 1000, input.clock + 3601000} :
       output' = [output EXCEPT
          !.stage = "repeated",
          !.laterClock = t,
          !.again = verifyUserAuthorization(input.fromAddress, input.amount,
                                            input.signature, input.permitData,
                                            input.chainId, t)]
  /\ UNCHANGED <<op, input, transferVars, flowVars, cli>>

\* generatePermit2Signature(signer, permit, chainId) returns the serialized signature;
\* the permit object is not written
GeneratePermit2SignatureCall ==
  /\ op = "generatePermit2Signature"
  /\ output.stage = "called"
  /\ output' = [output EXCEPT
        !.stage = "signed",
        !.signedValue = SignedPermitValue(input.signedPermit),
        !.signature = generatePermit2Signature(input.signerAddress, input.signedPermit,
                                               input.signedChainId)]
  /\ UNCHANGED <<op, input, transferVars, flowVars, cli>>

\* verifyPermit2Signature(permit, signature, chainId, expectedOwner) returns for the
\* signature just generated; the permit object is not written
VerifyPermit2SignatureCall ==
  /\ op = "generatePermit2Signature"
  /\ output.stage = "signed"
  /\ output' = [output EXCEPT
        !.stage = "returned",
        !.verifiedValue = PermitValue(input.permitData),
        !.value = verifyPermit2Signature(input.permitData, output.signature,
                                         input.chainId, input.expectedOwner)]
  /\ UNCHANGED <<op, input, transferVars, flowVars, cli>>

\* verifyPermit2Signature(permit, signature, chainId, expectedOwner) called on its own
\* completes
VerifyPermit2SignatureAlone ==
  /\ op = "verifyPermit2Signature"
  /\ output.stage = "called"
  /\ LET c == VerifyCompletion(input.permitData, input.signature, input.chainId,
                               input.expectedOwner)
     IN  output' = [output EXCEPT !.stage = "returned", !.threw = c.threw,
                                  !.value = c.value]
  /\ UNCHANGED <<op, input, transferVars, flowVars, cli>>

\* createPermit(owner, spender, token, value, nonce[, deadlineOffsetSeconds]) returns;
\* the default 3600 stands in for an omitted sixth argument (235)
CreatePermitCall ==
  /\ op = "createPermit"
  /\ output.stage = "called"
  /\ output' = [output EXCEPT
        !.stage = "returned",
        !.permit = createPermit(input.args.owner, input.args.spender, input.args.token,
                                input.args.value, input.args.nonce,
                                IF input.args.offsetGiven THEN input.args.offset
                                                          ELSE 3600,
                                input.clock)]
  /\ UNCHANGED <<op, input, transferVars, flowVars, cli>>

\* the module config.ts is loaded: its constant config is evaluated (31-40), which
\* calls getRequiredEnv for each required field; when one throws the import fails
\* and createConfig is never reached
ConfigModuleLoads ==
  /\ op = "createConfig"
  /\ output.stage = "called"
  /\ IF \E k \in RequiredKeys : getRequiredEnvThrows(input.env, k)
       THEN output' = [output EXCEPT !.stage = "returned", !.threw = TRUE]
       ELSE output' = [output EXCEPT !.stage = "loaded"]
  /\ UNCHANGED <<op, input, transferVars, flowVars, cli>>

\* createConfig(override) returns or throws (47-62)
CreateConfigCall ==
  /\ op = "createConfig"
  /\ output.stage = "loaded"
  /\ LET c == createConfig(input.env, input.override)
     IN  output' = [output EXCEPT !.stage = "returned", !.threw = c.threw,
                                  !.config = c.value]
  /\ UNCHANGED <<op, input, transferVars, flowVars, cli>>

LibNext ==
  \/ VerifyUserAuthorizationCall
  \/ VerifyUserAuthorizationAgain
  \/ ConfigModuleLoads
  \/ CreateConfigCall
  \/ GeneratePermit2SignatureCall
  \/ VerifyPermit2SignatureCall
  \/ VerifyPermit2SignatureAlone
  \/ CreatePermitCall

LibSpec == LibInit /\ [][LibNext]_vars

-----------------------------------------------------------------------------
(* Two executions of transferUsdcViaCctp at their submission step (659-669), *)
(* running concurrently against one chain.                                  *)

IdleTransfer ==
  /\ ver = 2
  /\ request = IdleRequest
  /\ pc = "idle"
  /\ now = StartClock
  /\ calls = [n \in CallNames |-> 0]
  /\ amountBigInt = 0
  /\ sourceAddress = Undefined
  /\ srcTxids = NoTxids
  /\ sourceTx = Undefined
  /\ delay = 0
  /\ startTime = 0
  /\ attestationIds = UndefinedIds
  /\ fetched = NoFetch
  /\ onlyNotYet = TRUE
  /\ isValid = "unset"
  /\ thrown = NoError
  /\ result = Pending
  /\ txSigner = Undefined
  /\ usedConfig = config
  /\ relayerPending = "unset"

\* MaxPending: the relayer's pending count when the executions start is 0..MaxPending
MaxPending == 1

\* an execution that reached the submission step: the debited address is
\* request.fromAddress in delegated mode, the relayer's otherwise (585-589, 620)
StartedFlow(from) ==
  [NoFlow EXCEPT !.pc = "getTransactionCount", !.fromAddress = from,
                 !.sourceAddress = IF Truthy(from) THEN from ELSE SponsorAddress]

ConcurrentInit ==
  /\ IdleTransfer
  /\ op = "none"
  /\ input = NoInput
  /\ output = NoOutput
  /\ cli = NoCli
  /\ \E n \in 0..MaxPending : pendingCount = [NoPending EXCEPT ![SponsorAddress] = n]
  /\ \E f1 \in {Undefined, UserAddress, OtherAddress},
        f2 \in {Undefined, UserAddress, OtherAddress}, alone \in BOOLEAN :
       flows = [f \in FlowIds |-> IF f = 1 THEN StartedFlow(f1)
                                  ELSE IF alone THEN NoFlow ELSE StartedFlow(f2)]

\* the account whose key signs the source transaction: baseSigner, whatever the
\* debited address is (663, 667-668)
SigningAccount(flow) == SponsorAddress

\* getTransactionCount(baseSigner.address, 'pending') settles and is logged; the
\* relayer's signer is wrapped (663-667)
FlowGetTransactionCount(f) ==
  /\ flows[f].pc = "getTransactionCount"
  /\ flows' = [flows EXCEPT ![f].pc = "toEvmSdkSigner",
                            ![f].signer = SigningAccount(flows[f])]
  /\ UNCHANGED <<pendingCount, transferVars, libraryVars, cli>>

\* initiateTransfer(baseSdkSigner) prepares the transaction: it gets the next nonce
\* of the signing account (668)
FlowPrepare(f) ==
  /\ flows[f].pc = "toEvmSdkSigner"
  /\ flows' = [flows EXCEPT ![f].pc = "initiateTransfer",
                            ![f].nonce = pendingCount[flows[f].signer]]
  /\ UNCHANGED <<pendingCount, transferVars, libraryVars, cli>>

\* the transaction is sent: the network takes it when its nonce is the account's next
\* one, and rejects a second transaction with a nonce already pending
\* ("replacement fee too low")
FlowSend(f) ==
  /\ flows[f].pc = "initiateTransfer"
  /\ IF flows[f].nonce = pendingCount[flows[f].signer]
       THEN /\ flows' = [flows EXCEPT ![f].pc = "done", ![f].outcome = "sent"]
            /\ pendingCount' = [pendingCount EXCEPT ![flows[f].signer] = @ + 1]
       ELSE /\ flows' = [flows EXCEPT ![f].pc = "done", ![f].outcome = "failed"]
            /\ UNCHANGED pendingCount
  /\ UNCHANGED <<transferVars, libraryVars, cli>>

ConcurrentNext ==
  \E f \in FlowIds :
    \/ FlowGetTransactionCount(f)
    \/ FlowPrepare(f)
    \/ FlowSend(f)

ConcurrentSpec == ConcurrentInit /\ [][ConcurrentNext]_vars

-----------------------------------------------------------------------------
(* The command-line runner runCctp.ts (version with --from, --sig, --permit-data) *)

GoodTo == "0xc3e2a21da9f68dcd3ad8668c8fb72ede9f46fea67652fbffa9db8f8af0c612cf"
BadTo == "0x1234"
GoodFrom == "0x1234567890123456789012345678901234567890"
BadFrom == "0xUserAddress"
GoodJson == "{\"owner\":\"0x..\",\"value\":\"1000000\"}"
BadJson == "{owner"
NullJson == "null"

\* an argument list: optional --help in front, the flags with their values in the
\* usual order, optional --help at the end; a flag can also come without a value
ArgLists ==
  { h1 \o a \o t \o f \o g \o p \o h2 :
      h1 \in {<<>>, <<"--help">>},
      a \in {<<>>, <<"--amount">>}
               \cup {<<"--amount", x>> : x \in {"1.0", "abc", "0", "-1", "1.0abc"}},
      t \in {<<>>, <<"--to", GoodTo>>, <<"--to", BadTo>>},
      f \in {<<>>, <<"--from", GoodFrom>>, <<"--from", BadFrom>>},
      g \in {<<>>, <<"--sig", "dummy">>, <<"--sig", "">>},
      p \in {<<>>} \cup {<<"--permit-data", j>> : j \in {GoodJson, BadJson, NullJson}},
      h2 \in {<<>>, <<"--help">>} }

\* the loop of parseArgs from position i on (131-178); --help ends the process at once
RECURSIVE ParseFrom(_, _, _)
ParseFrom(args, i, acc) ==
  IF i > Len(args) THEN acc
  ELSE IF args[i] = "--amount" /\ i + 1 <= Len(args)
    THEN ParseFrom(args, i + 2, [acc EXCEPT !.amount = args[i + 1]])
  ELSE IF args[i] = "--to" /\ i + 1 <= Len(args)
    THEN ParseFrom(args, i + 2, [acc EXCEPT !.to = args[i + 1]])
  ELSE IF args[i] = "--from" /\ i + 1 <= Len(args)
    THEN ParseFrom(args, i + 2, [acc EXCEPT !.from = args[i + 1]])
  ELSE IF args[i] = "--sig" /\ i + 1 <= Len(args)
    THEN ParseFrom(args, i + 2, [acc EXCEPT !.sig = args[i + 1]])
  ELSE IF args[i] = "--permit-data" /\ i + 1 <= Len(args)
    THEN ParseFrom(args, i + 2, [acc EXCEPT !.permitDataJson = args[i + 1]])
  ELSE IF args[i] \in {"--help", "-h"}
    THEN [acc EXCEPT !.help = TRUE]
  ELSE ParseFrom(args, i + 1, acc)

\* JSON.parse and the BigInt conversions of the permit throw (182-197): text that is
\* not JSON, or JSON null, whose fields cannot be read
PermitJsonThrows(json) == json \in {BadJson, NullJson}

\* parseFloat(amount): the longest numeric prefix decides
ParseFloatClass(amount) ==
  CASE amount \in {"1.0", "1.0abc"} -> "positive"
    [] amount = "0" -> "zero"
    [] amount = "-1" -> "negative"
    [] amount \in {GoodTo, BadTo, GoodFrom, BadFrom} -> "zero"
    [] OTHER -> "NaN"

\* the checks of main before the transfer (209-248), each ending the process with 1:
\* a missing amount, isNaN(amountNum) || amountNum <= 0, the 64-hex-digit test of --to,
\* the 0x + 40-hex-digit test of --from, --from without --sig
ValidationFails(parsed) ==
  \/ ~Truthy(parsed.amount)
  \/ ParseFloatClass(parsed.amount) # "positive"
  \/ Truthy(parsed.to) /\ parsed.to # GoodTo
  \/ Truthy(parsed.from) /\ parsed.from # GoodFrom
  \/ Truthy(parsed.from) /\ ~Truthy(parsed.sig)

CliInit ==
  /\ IdleTransfer
  /\ op = "none"
  /\ input = NoInput
  /\ output = NoOutput
  /\ flows = NoFlows
  /\ pendingCount = NoPending
  /\ \E args \in ArgLists : cli = [NoCli EXCEPT !.pc = "parseArgs", !.args = args]

\* parseArgs returns, or ends the process: 0 for --help, 1 for invalid --permit-data
ParseArgsReturns ==
  /\ cli.pc = "parseArgs"
  /\ LET parsed == ParseFrom(cli.args, 1, NoParsed)
     IN  IF parsed.help
           THEN cli' = [cli EXCEPT !.pc = "exited", !.parsed = parsed, !.exitCode = 0]
           ELSE IF Truthy(parsed.permitDataJson) /\ PermitJsonThrows(parsed.permitDataJson)
             THEN cli' = [cli EXCEPT !.pc = "exited", !.parsed = parsed, !.exitCode = 1]
             ELSE cli' = [cli EXCEPT !.pc = "main", !.parsed = parsed]
  /\ UNCHANGED <<transferVars, libraryVars, flowVars>>

\* main validates the arguments and calls transferUsdcViaCctp (209-265)
MainValidates ==
  /\ cli.pc = "main"
  /\ IF ValidationFails(cli.parsed)
       THEN cli' = [cli EXCEPT !.pc = "exited", !.exitCode = 1]
       ELSE cli' = [cli EXCEPT !.pc = "transfer", !.invoked = TRUE]
  /\ UNCHANGED <<transferVars, libraryVars, flowVars>>

\* the transfer settles: the process ends with 0 after a successful result, with 1
\* after a failed one (284-286) or a rejection (290-293)
TransferSettles ==
  /\ cli.pc = "transfer"
  /\ \E r \in {"success", "failed", "rejected"} :
       cli' = [cli EXCEPT !.pc = "exited", !.result = r,
                          !.exitCode = IF r = "success" THEN 0 ELSE 1]
  /\ UNCHANGED <<transferVars, libraryVars, flowVars>>

CliNext ==
  \/ ParseArgsReturns
  \/ MainValidates
  \/ TransferSettles

CliSpec == CliInit /\ [][CliNext]_vars

TypeOK ==
  /\ ver \in {1, 2}
  /\ result.state \in {"pending", "fulfilled", "rejected"}
  /\ (pc = "done") = (result.state # "pending")

-----------------------------------------------------------------------------
(* Properties *)

Elapsed == now - startTime
Polling == ver = 1 /\ pc \in {"fetchAttestation", "setTimeout"}
Failed == result.state = "fulfilled" /\ ~result.success
IsTimeout(e) == e \in {TimeoutInCatch, TimeoutAfterLoop}
InitiateReturned == srcTxids # NoTxids
Present(id) == id # Undefined /\ id # ""

\* C1: completeTransfer is called only after initiateTransfer has returned and an
\* attestation query has yielded a non-empty list; when the source submission failed
\* or no attestation was obtained, completeTransfer is not called.
C1_CompleteOnlyAfterAttestation ==
  calls["completeTransfer"] > 0 =>
    /\ calls["initiateTransfer"] > 0
    /\ InitiateReturned
    /\ fetched.kind = "list"
    /\ HasAttestation(attestationIds)

\* a transfer of the polling version completed after at least one backoff sleep
C1_Witness ==
  /\ ver = 1
  /\ pc = "done"
  /\ result.success
  /\ calls["setTimeout"] > 0
  /\ calls["completeTransfer"] = 1

\* C2 as stated: when the authorization check fails in delegated mode, no call to a
\* chain client (network query, nonce query, initiateTransfer, completeTransfer) has
\* been made.
C2_NoChainCallBeforeAbort ==
  isValid = "false" =>
    /\ pc = "done"
    /\ Failed
    /\ \A n \in {"getNetwork", "getTransactionCount", "initiateTransfer", "completeTransfer"} :
         calls[n] = 0

\* C2 amended: when the authorization check fails in delegated mode, the transfer has
\* ended with a failed result; the only chain-client call made is the network query
\* that supplies the chain id, and no transfer is created, no nonce is read and
\* nothing is submitted or fetched.
C2_OnlyNetworkQueryBeforeAbort ==
  isValid = "false" =>
    /\ pc = "done"
    /\ Failed
    /\ result.error = AuthorizationFailed.text
    /\ calls["getNetwork"] = 1
    /\ \A n \in {"circleTransfer", "quoteTransfer", "getTransactionCount", "toEvmSdkSigner",
                  "initiateTransfer", "fetchAttestation", "completeTransfer"} :
         calls[n] = 0

\* a delegated request with a real signature and an expired permit was refused
C2_Witness ==
  /\ isValid = "false"
  /\ pc = "done"
  /\ useUserWallet
  /\ request.signature = UserSignature
  /\ request.permitData.present
  /\ request.permitData.deadline < now \div 1000

\* C3: whatever is thrown, the promise is never rejected: it is fulfilled with
\* success = false and an error message.
C3_NeverRejects ==
  /\ result.state # "rejected"
  /\ thrown # NoError => (pc = "done" /\ Failed /\ result.error # <<>>)

\* C4: a result with success = true has sourceTx, attestationId and destinationTx
\* present and non-empty.
C4_SuccessFieldsPresent ==
  result.success =>
    /\ Present(result.sourceTx)
    /\ Present(result.attestationId)
    /\ Present(result.destinationTx)

\* C5: a failed result returned after the source submission succeeded carries the
\* source transaction id, in sourceTx or in the error message.
C5_FailureNamesSourceTx ==
  (pc = "done" /\ Failed /\ InitiateReturned /\ Present(sourceTx)) =>
    \/ result.sourceTx = sourceTx
    \/ Includes(result.error, sourceTx)

\* C6: when every attestation query reported "not yet available", the transfer ends
\* (in the polling version not before the deadline) with success = false and an
\* error text containing "180", and completeTransfer is never called.
C6_AlwaysNotYetEndsInTimeout ==
  /\ onlyNotYet => calls["completeTransfer"] = 0
  /\ (pc = "done" /\ onlyNotYet /\ calls["fetchAttestation"] > 0) =>
       /\ Failed
       /\ Includes(result.error, "180")
       /\ ver = 1 => Elapsed >= MaxTimeout

\* the polling version gave up after sleeping at least twice
C6_Witness ==
  /\ ver = 1
  /\ pc = "done"
  /\ onlyNotYet
  /\ calls["setTimeout"] >= 2
  /\ Failed
  /\ Includes(result.error, "180")

\* C7 as stated: when the polling loop declares the timeout, no more than 180000 ms
\* have passed since the start timestamp.
C7_TimeoutWithinDeadline ==
  (ver = 1 /\ pc = "done" /\ IsTimeout(thrown)) => Elapsed <= MaxTimeout

\* C7 amended: no attestation query is issued once 180000 ms have passed since the
\* start timestamp, and the timeout is declared only when at least 180000 ms have
\* passed (the last query or sleep may carry the total beyond the deadline).
C7_NoQueryAfterDeadline ==
  /\ (ver = 1 /\ pc = "fetchAttestation") => Elapsed < MaxTimeout
  /\ (ver = 1 /\ IsTimeout(thrown)) => (pc = "done" /\ Elapsed >= MaxTimeout)

\* the timeout was declared in the catch of the loop, later than the deadline
C7_Witness ==
  /\ ver = 1
  /\ pc = "done"
  /\ thrown = TimeoutInCatch
  /\ Elapsed > MaxTimeout

\* C8: a query of the polling loop that ends "not yet available" (the not-found or
\* timeout error, or an empty list) before the deadline is followed by a backoff sleep.
C8_SleepBeforeNextQuery ==
  [][(ver = 1 /\ pc = "fetchAttestation" /\ NotYetAvailable(fetched')
        /\ now' - startTime < MaxTimeout)
      => pc' = "setTimeout"]_vars

\* C9: an attestation query that fails with another error ends the transfer with
\* that error: the result's error is that error's message.
C9_OtherErrorPropagated ==
  (fetched.kind = "throw" /\ ~IsNotReadyError(fetched.err) /\ fetched.err.type = "Error") =>
    /\ pc = "done"
    /\ thrown = fetched.err
    /\ Failed
    /\ result.error = ErrorText(fetched.err)

\* C10: the backoff interval starts at 2000 ms, stays between 2000 ms and 30000 ms
\* and never decreases.
C10_DelayBounds ==
  /\ [](Polling => delay # 0)
  /\ []((delay # 0 /\ calls["setTimeout"] = 0) => delay = InitialDelay * DelayScale)
  /\ [](delay # 0 => (delay >= InitialDelay * DelayScale /\ delay <= MaxDelay * DelayScale))
  /\ [][delay' >= delay]_vars

\* the interval has reached its cap and the next query is out
C10_Witness ==
  /\ Polling
  /\ pc = "fetchAttestation"
  /\ delay = MaxDelay * DelayScale


-----------------------------------------------------------------------------
(* Termination of the polling phase *)

PollingEnded ==
  /\ ver = 1
  /\ \/ pc = "completeTransfer" /\ HasAttestation(attestationIds)
     \/ pc = "done" /\ thrown # NoError

\* C11: when every attestation query and every sleep returns and the clock advances,
\* the polling phase ends: a non-empty attestation was received, or the timeout or
\* another error was thrown.
C11_PollingTerminates == Polling ~> PollingEnded

\* the attestation arrived after a backoff sleep and a second query
C11_Witness ==
  /\ PollingEnded
  /\ pc = "completeTransfer"
  /\ calls["setTimeout"] >= 1
  /\ calls["fetchAttestation"] >= 2


-----------------------------------------------------------------------------
(* The authorization verifier *)

Verified == op = "verifyUserAuthorization" /\ output.stage = "returned"
OwnerMatches == toLowerCase(input.permitData.owner) = toLowerCase(input.fromAddress)
\* the presented signature is the holder's own signature over the presented permit
SignedByHolder ==
  /\ input.chainId # 0
  /\ input.signature = generatePermit2Signature(UserAddress, input.permitData, input.chainId)
  /\ toLowerCase(input.fromAddress) = toLowerCase(UserAddress)

\* C12 as stated: verifyUserAuthorization returns false for every call whose permit has
\* a deadline earlier than the current unix time, whatever the signature argument is.
C12_ExpiredAlwaysRejected ==
  (Verified /\ input.permitData.present
     /\ input.permitData.deadline < input.clock \div 1000) => ~output.value

\* C12 amended: verifyUserAuthorization returns false for every call whose permit has a
\* deadline earlier than the current unix time and whose signature argument is not the
\* literal "dummy"; with "dummy" the permit is not looked at.
C12_ExpiredRejectedUnlessDummy ==
  (Verified /\ input.permitData.present
     /\ input.permitData.deadline < input.clock \div 1000
     /\ input.signature # DummySignature) => ~output.value

\* an expired permit of the right owner and value, validly signed, is rejected
C12_Witness ==
  /\ Verified
  /\ input.permitData.present
  /\ input.permitData.deadline = (input.clock \div 1000) - 1
  /\ OwnerMatches
  /\ input.permitData.value = input.amount
  /\ SignedByHolder
  /\ ~output.value

\* C14: for a signature other than the bypass token and a supplied permit,
\* verifyUserAuthorization returns false when permit.owner differs from fromAddress
\* ignoring letter case, or permit.value differs from the amount, whether or not the
\* signature is valid for the permit.
C14_OwnerOrValueMismatchRejected ==
  (Verified /\ input.permitData.present /\ input.signature # DummySignature
     /\ (~OwnerMatches \/ input.permitData.value # input.amount)) => ~output.value

\* a validly signed, unexpired permit of the right owner for another value is rejected
C14_Witness ==
  /\ Verified
  /\ input.permitData.present
  /\ OwnerMatches
  /\ input.permitData.value # input.amount
  /\ input.permitData.deadline > input.clock \div 1000
  /\ SignedByHolder
  /\ ~output.value

\* C15 as stated: verifyUserAuthorization returns true whenever its signature argument
\* is the literal "unauthenticated".
C15_UnauthenticatedAccepted ==
  (Verified /\ input.signature = UnauthenticatedSignature) => output.value

\* C15 amended: verifyUserAuthorization returns true whenever its signature argument
\* is the literal "dummy", for every owner, amount, permit (present or absent) and
\* chainId (present or absent); the literal "unauthenticated" is not a bypass token.
C15_DummyAccepted ==
  /\ (Verified /\ input.signature = DummySignature) => output.value
  /\ (Verified /\ input.signature = UnauthenticatedSignature) => ~output.value

\* "dummy" accepted without chainId, for an expired permit of another owner and value
C15_Witness ==
  /\ Verified
  /\ input.signature = DummySignature
  /\ input.chainId = 0
  /\ input.permitData.present
  /\ ~OwnerMatches
  /\ input.permitData.value # input.amount
  /\ input.permitData.deadline < input.clock \div 1000
  /\ output.value

\* C13: a delegated-mode request with a permit whose deadline is one second in the
\* past ends in success=false with an error text containing "expired", and neither
\* initiateTransfer nor completeTransfer is called.
C13_ExpiredPermitReported ==
  (ver = 2 /\ Truthy(request.fromAddress) /\ SignatureTruthy(request.signature)
     /\ isValid # "unset" /\ request.permitData.present
     /\ request.permitData.deadline = (StartClock \div 1000) - 1) =>
    /\ calls["initiateTransfer"] = 0
    /\ calls["completeTransfer"] = 0
    /\ pc = "done" => (Failed /\ Includes(result.error, "expired"))

-----------------------------------------------------------------------------
(* Signing and verifying a permit *)

Signed == op = "generatePermit2Signature" /\ output.stage \in {"signed", "returned"}
SignatureVerified == op = "generatePermit2Signature" /\ output.stage = "returned"
SameChain == input.chainId = input.signedChainId
\* expectedOwner is the address of the signing key, letter case aside
OwnerExpected == toLowerCase(input.expectedOwner) = toLowerCase(input.signerAddress)
PermitFields == {"owner", "spender", "token", "value", "nonce", "deadline"}
FieldsChanged == {f \in PermitFields : input.permitData[f] # input.signedPermit[f]}
ClampTo(x, max) == IF x > max THEN max ELSE x
SameAfterClamping ==
  /\ ClampTo(input.permitData.value, maxUint160) = ClampTo(input.signedPermit.value, maxUint160)
  /\ ClampTo(input.permitData.nonce, maxUint48) = ClampTo(input.signedPermit.nonce, maxUint48)

\* C16: verifyPermit2Signature(permit, generatePermit2Signature(signer, permit, chainId),
\* chainId, O) returns true for every permit, key of owner O and chainId, also when the
\* permit's value, nonce or deadline exceed the clamping bounds.
C16_RoundTrip ==
  (SignatureVerified /\ FieldsChanged = {} /\ SameChain /\ OwnerExpected) => output.value

\* the round trip of a permit whose value, nonce and deadline are all above the bounds
C16_Witness ==
  /\ SignatureVerified
  /\ FieldsChanged = {}
  /\ SameChain
  /\ OwnerExpected
  /\ input.signedPermit.value > maxUint160
  /\ input.signedPermit.nonce > maxUint48
  /\ input.signedPermit.deadline > maxUint48
  /\ output.value

\* C17 as stated: with the same signature, chainId and expectedOwner,
\* verifyPermit2Signature returns false for a permit that differs from the signed one
\* in any single field.
C17_AnyFieldMutationRejected ==
  (SignatureVerified /\ SameChain /\ OwnerExpected /\ Cardinality(FieldsChanged) = 1)
    => ~output.value

\* C17 amended: with the same signature, chainId and expectedOwner,
\* verifyPermit2Signature returns false for a permit that differs from the signed one
\* in spender, token or deadline, or in value or nonce after clamping to 2^160-1 and
\* 2^48-1; it returns true for a permit that differs only in owner, or only in a value
\* or nonce that both exceed the clamping bound.
C17_SignedFieldMutationRejected ==
  /\ (SignatureVerified /\ SameChain /\ OwnerExpected /\ Cardinality(FieldsChanged) = 1
        /\ (FieldsChanged \subseteq {"spender", "token", "deadline"} \/ ~SameAfterClamping))
       => ~output.value
  /\ (SignatureVerified /\ SameChain /\ OwnerExpected /\ Cardinality(FieldsChanged) = 1
        /\ FieldsChanged \subseteq {"owner", "value", "nonce"} /\ SameAfterClamping)
       => output.value

\* a signature presented with a permit for another spender is rejected
C17_Witness ==
  /\ SignatureVerified
  /\ SameChain
  /\ OwnerExpected
  /\ FieldsChanged = {"spender"}
  /\ ~output.value

\* C18: with the permit that was signed, verifyPermit2Signature returns false when
\* expectedOwner is not the address of the signing key (letter case aside), and false
\* when the chainId is not the one signed.
C18_OtherOwnerOrChainRejected ==
  (SignatureVerified /\ FieldsChanged = {} /\ (~OwnerExpected \/ ~SameChain))
    => ~output.value

\* the signer's own permit verified on another chain is rejected
C18_Witness ==
  /\ SignatureVerified
  /\ FieldsChanged = {}
  /\ OwnerExpected
  /\ ~SameChain
  /\ ~output.value

\* C19: when permit.value exceeds 2^160-1, generatePermit2Signature and
\* verifyPermit2Signature use exactly 2^160-1 as the amount of the signed
\* representation, and the permit object passed in keeps every field.
C19_ClampedAmountPermitKept ==
  /\ [](Signed /\ input.signedPermit.value > maxUint160
          => output.signedValue.details.amount = maxUint160)
  /\ [](SignatureVerified /\ input.permitData.value > maxUint160
          => output.verifiedValue.details.amount = maxUint160)
  /\ [][op = "generatePermit2Signature" => input' = input]_vars

\* a permit for more than 2^160-1 was signed and verified, and still holds that value
C19_Witness ==
  /\ SignatureVerified
  /\ input.signedPermit.value = maxUint160 + 2
  /\ input.permitData.value = maxUint160 + 2
  /\ output.signedValue.details.amount = maxUint160
  /\ output.verifiedValue.details.amount = maxUint160

-----------------------------------------------------------------------------
(* Delegated and direct mode *)

BothPresent == Truthy(request.fromAddress) /\ SignatureTruthy(request.signature)

\* C20: the authorization check is run, and the debited address is fromAddress, exactly
\* when request.fromAddress and request.signature are both present and non-empty;
\* otherwise no check is run and the debited address is the relayer's.  The check
\* precedes the submission, and the source transaction is signed by the relayer.
C20_DelegatedIffBothPresent ==
  /\ isValid # "unset" => BothPresent
  /\ (BothPresent /\ calls["circleTransfer"] > 0) => isValid = "true"
  /\ sourceAddress # Undefined =>
       sourceAddress = IF BothPresent THEN request.fromAddress ELSE SponsorAddress
  /\ calls["initiateTransfer"] > 0 => txSigner = SponsorAddress
  /\ calls["initiateTransfer"] = 0 => txSigner = Undefined

\* fromAddress given without a signature: the relayer is debited, nothing is verified
C20_Witness ==
  /\ ver = 2
  /\ Truthy(request.fromAddress)
  /\ ~SignatureTruthy(request.signature)
  /\ calls["initiateTransfer"] > 0
  /\ isValid = "unset"
  /\ sourceAddress = SponsorAddress
  /\ txSigner = SponsorAddress


-----------------------------------------------------------------------------
(* Validation, retries, configuration and pending transactions of one transfer *)

NetworkCalls == CallNames \ {"setTimeout"}

\* C21: a request whose amount is non-numeric, zero or negative is rejected: the result
\* has success=false and neither initiateTransfer nor completeTransfer is called.
C21_BadAmountRejected ==
  request.amount \in {"abc", "0", "-1"} =>
    /\ calls["initiateTransfer"] = 0
    /\ calls["completeTransfer"] = 0
    /\ pc = "done" => Failed

\* C22: initiateTransfer and completeTransfer are each invoked at most once in one
\* execution; when initiateTransfer fails the request ends with success=false and no
\* attestation is fetched and completeTransfer is not called.
C22_NoRetryOfSubmissions ==
  /\ calls["initiateTransfer"] <= 1
  /\ calls["completeTransfer"] <= 1
  /\ (pc = "done" /\ calls["initiateTransfer"] = 1 /\ ~InitiateReturned) =>
       /\ Failed
       /\ calls["fetchAttestation"] = 0
       /\ calls["completeTransfer"] = 0

\* C26: for a request with a malformed amount no network-facing call (SDK
\* initialisation, signer creation, chain query, submission, attestation query) is made.
C26_MalformedAmountBeforeIO ==
  request.amount = "abc" => \A n \in NetworkCalls : calls[n] = 0

\* C28: the configuration in request.config is the one the SDK and the signers of that
\* transfer are created from.
C28_RequestConfigUsed ==
  (request.config.present /\ calls["wormhole"] > 0) => usedConfig = request.config

\* C29: initiateTransfer is not called while the relayer account has a pending
\* transaction; a request that found one and ended did so with a failed result.
C29_NoSubmissionWhilePending ==
  relayerPending = "pending" =>
    /\ calls["initiateTransfer"] = 0
    /\ pc = "done" => Failed


-----------------------------------------------------------------------------
(* verifyPermit2Signature on its own, the reconstructed permit, createPermit *)

VerifiedAlone == op = "verifyPermit2Signature" /\ output.stage = "returned"

\* C24: verifyPermit2Signature never throws; a failure while building the typed data,
\* hashing or recovering the signer yields false.
C24_VerifyNeverThrows ==
  VerifiedAlone =>
    /\ ~output.threw
    /\ (~input.permitData.present
          \/ input.permitData.token = MalformedToken
          \/ input.signature.kind # "sig"
          \/ input.expectedOwner = Undefined) => ~output.value

\* a string that is not a signature, presented with a well-formed permit, yields false
C24_Witness ==
  /\ VerifiedAlone
  /\ input.permitData.present
  /\ input.permitData.token = BASE_SEPOLIA_USDC
  /\ input.signature = GarbageSignature
  /\ ~output.threw
  /\ ~output.value

\* the permit C25 names: owner = fromAddress, value = amount, nonce = 0,
\* deadline = now + 3600, spender = Permit2, token = Base Sepolia USDC
C25_Permit ==
  [present |-> TRUE, owner |-> input.fromAddress, spender |-> PERMIT2_ADDRESS,
   token |-> BASE_SEPOLIA_USDC, value |-> input.amount, nonce |-> 0,
   deadline |-> (input.clock \div 1000) + 3600]

\* C25: without a permit and with a signature other than the bypass token,
\* verifyUserAuthorization (given a chainId) returns what verifyPermit2Signature
\* returns for the reconstructed permit, with fromAddress as the expected owner.
C25_ReconstructedPermitVerified ==
  (Verified /\ ~input.permitData.present /\ input.signature # DummySignature
     /\ input.chainId # 0) =>
    output.value = verifyPermit2Signature(C25_Permit, input.signature, input.chainId,
                                          input.fromAddress)

\* a signature of the address's key over the reconstructed permit is accepted
C25_Witness ==
  /\ Verified
  /\ ~input.permitData.present
  /\ input.chainId = BASE_SEPOLIA_CHAIN_ID
  /\ input.fromAddress = UserAddressLower
  /\ input.signature =
       generatePermit2Signature(UserAddress, C25_Permit, BASE_SEPOLIA_CHAIN_ID)
  /\ output.value

PermitCreated == op = "createPermit" /\ output.stage = "returned"

-----------------------------------------------------------------------------
(* Concurrent executions *)

BothRunning == flows[1].pc # "absent" /\ flows[2].pc # "absent"

\* C23: two concurrent executions that debit different source accounts do not use the
\* transaction counter of the same account, and each ends as it does when run alone,
\* with its source transaction sent.
C23_IndependentFlows ==
  (BothRunning /\ flows[1].sourceAddress # flows[2].sourceAddress) =>
    /\ (flows[1].signer # Undefined /\ flows[2].signer # Undefined)
         => flows[1].signer # flows[2].signer
    /\ \A f \in FlowIds : flows[f].pc = "done" => flows[f].outcome = "sent"

-----------------------------------------------------------------------------
(* The command-line runner *)

Exited == cli.pc = "exited"
\* the value that follows a flag in the argument list, Undefined when there is none
RECURSIVE ValueAfter(_, _, _)
ValueAfter(args, flag, i) ==
  IF i >= Len(args) THEN Undefined
  ELSE IF args[i] = flag THEN args[i + 1]
  ELSE ValueAfter(args, flag, i + 1)
Given(flag) == ValueAfter(cli.args, flag, 1)
\* the validation failures C27 lists
C27_ValidationFailure ==
  \/ Given("--amount") \notin {"1.0"}
  \/ Given("--to") \notin {Undefined, GoodTo}
  \/ Given("--from") \notin {Undefined, GoodFrom}
  \/ Given("--from") # Undefined /\ Given("--sig") \in {Undefined, ""}
  \/ Given("--permit-data") \notin {Undefined, GoodJson}

\* C27: the runner exits with 0 exactly when the transfer result has success=true,
\* with 1 on every validation failure and every failed transfer result, and never
\* invokes transferUsdcViaCctp after a validation failure.
C27_ExitCodes ==
  Exited =>
    /\ (cli.exitCode = 0) = (cli.result = "success")
    /\ C27_ValidationFailure => (cli.exitCode = 1 /\ ~cli.invoked)
    /\ cli.result \in {"failed", "rejected"} => cli.exitCode = 1

-----------------------------------------------------------------------------
(* Amount conversion, the bypass token and a late attestation *)

\* the decimal value of an amount string times 1,000,000, in exact arithmetic
ExactMicroUnits(amount) ==
  CASE amount = "1.0" -> 1000000
    [] amount = "0.000249" -> 249
    [] OTHER -> 0
AmountParsed == sourceAddress # Undefined

\* C31: for a positive decimal amount string with at most 6 fractional digits, the
\* integer amount the transfer uses is exactly the decimal value times 1,000,000.
C31_ExactMicroUnits ==
  (AmountParsed /\ request.amount \in {"1.0", "0.000249"}) =>
    amountBigInt = ExactMicroUnits(request.amount)

DelegatedWithDummy ==
  ver = 2 /\ Truthy(request.fromAddress) /\ request.signature = DummySignature

\* C34: a delegated transfer whose signature is "dummy" passes the authorization check
\* and goes on to create the transfer, whatever fromAddress, amount and permitData
\* are and in both network modes; it never fails with the authorization error.
C34_DummyPassesAuthorization ==
  (DelegatedWithDummy /\ isValid # "unset") =>
    /\ isValid = "true"
    /\ calls["circleTransfer"] > 0
    /\ thrown # AuthorizationFailed

\* on Mainnet, with a permit that expired and names another amount, the source-side
\* submission is reached
C34_Witness ==
  /\ DelegatedWithDummy
  /\ usedConfig.networkType = "Mainnet"
  /\ request.permitData.present
  /\ request.permitData.deadline < now \div 1000
  /\ request.amount = "0.000249"
  /\ calls["initiateTransfer"] > 0

\* C37: in version 1 an attestation that a query returned is accepted whenever the
\* query returns: completeTransfer is called and the transfer does not end with a
\* timeout error, also when more than 180000 ms have passed since polling began.
C37_LateAttestationAccepted ==
  (ver = 1 /\ HasAttestation(attestationIds)) =>
    /\ calls["completeTransfer"] > 0
    /\ ~IsTimeout(thrown)

\* the attestation arrived after the deadline and the transfer succeeded
C37_Witness ==
  /\ ver = 1
  /\ HasAttestation(attestationIds)
  /\ Elapsed > MaxTimeout
  /\ pc = "done"
  /\ result.success

-----------------------------------------------------------------------------
(* The signed representation, the deadline, repeated and foreign permits *)

\* the nonce, expiration and sigDeadline C32 names for a permit p in a typed value v
ClampedAsStated(p, v) ==
  /\ v.details.nonce = ClampTo(p.nonce, maxUint48)
  /\ v.details.expiration = ClampTo(p.deadline, maxUint48)
  /\ v.sigDeadline = p.deadline
  /\ (v.details.expiration = v.sigDeadline) = (p.deadline <= maxUint48)

\* C32: in the value generatePermit2Signature signs and in the value
\* verifyPermit2Signature checks, details.nonce is min(nonce, 2^48-1), details.expiration
\* is min(deadline, 2^48-1) and sigDeadline is the deadline itself; expiration and
\* sigDeadline are equal exactly when the deadline is at most 2^48-1.
C32_NonceExpirationSigDeadline ==
  /\ Signed => ClampedAsStated(input.signedPermit, output.signedValue)
  /\ SignatureVerified => ClampedAsStated(input.permitData, output.verifiedValue)

\* a permit with nonce and deadline above 2^48-1 was signed and verified: expiration
\* and sigDeadline differ in both values
C32_Witness ==
  /\ SignatureVerified
  /\ input.signedPermit.nonce > maxUint48
  /\ input.signedPermit.deadline > maxUint48
  /\ input.permitData.deadline > maxUint48
  /\ output.signedValue.details.expiration # output.signedValue.sigDeadline
  /\ output.verifiedValue.details.expiration # output.verifiedValue.sigDeadline

AtDeadline == input.permitData.deadline = input.clock \div 1000

\* C33 as stated: a supplied permit whose deadline is the current unix time or earlier
\* is rejected (the bypass token aside).
C33_DeadlineNowRejected ==
  (Verified /\ input.permitData.present /\ input.signature # DummySignature
     /\ input.permitData.deadline <= input.clock \div 1000) => ~output.value

\* C33 amended: a supplied permit whose deadline is earlier than the current unix time
\* is rejected; one whose deadline equals the current unix time is not expired and is
\* accepted when its owner, value and signature are right (the bypass token aside).
C33_DeadlineNowAccepted ==
  (Verified /\ input.permitData.present /\ input.signature # DummySignature) =>
    /\ input.permitData.deadline < input.clock \div 1000 => ~output.value
    /\ (AtDeadline /\ OwnerMatches /\ input.permitData.value = input.amount
          /\ SignedByHolder) => output.value

\* a validly signed permit whose deadline is the current second is accepted
C33_Witness ==
  /\ Verified
  /\ input.permitData.present
  /\ AtDeadline
  /\ OwnerMatches
  /\ input.permitData.value = input.amount
  /\ SignedByHolder
  /\ output.value

Repeated == op = "verifyUserAuthorization" /\ output.stage = "repeated"

C36_SpenderTokenIgnored ==
  (Verified /\ input.permitData.present /\ OwnerMatches
     /\ input.permitData.value = input.amount
     /\ input.permitData.deadline >= input.clock \div 1000
     /\ SignedByHolder) => output.value

\* a permit for another token with a third party as spender is accepted
C36_Witness ==
  /\ Verified
  /\ input.permitData.present
  /\ input.permitData.token = "0xOtherToken"
  /\ input.permitData.spender = OtherAddress
  /\ OwnerMatches
  /\ SignedByHolder
  /\ output.value

-----------------------------------------------------------------------------
(* Configuration *)

ConfigDone == op = "createConfig" /\ output.stage = "returned"
OverrideComplete == \A k \in RequiredKeys : Truthy(input.override[k])

\* C38: when the override holds the four required values, loading the module and
\* calling createConfig(override) does not throw, whatever the environment holds, and
\* each required field of the result is the override's value.
C38_CreateConfigWithoutEnv ==
  (ConfigDone /\ OverrideComplete) =>
    /\ ~output.threw
    /\ \A k \in RequiredKeys : output.config[k] = input.override[k]

=============================================================================
